---- MODULE Spec2Model ----
(***************************************************************************)
(* Model of bitcoin/src/crypto/taproot.rs: the taproot Signature value     *)
(* (a k256 schnorr signature with a TapSighashType), its decode            *)
(* (from_slice), its encodings (serialize, to_vec, serialize_to_writer)    *)
(* and its Eq / Ord / Hash implementations.                                *)
(*                                                                         *)
(* Bytes are the naturals 0..255, slices and arrays are sequences (index 1 *)
(* is Rust's index 0).  A Result is a record with the field ok.            *)
(***************************************************************************)
EXTENDS Integers, Sequences, FiniteSets, TLC

VARIABLES a, out

vars == <<a, out>>

(***************************************************************************)
(* Sizes                                                                   *)
(***************************************************************************)
\* length of a raw schnorr signature, and of the encoding without a sighash byte
SigLen == 64
\* serialized_signature::MAX_LEN: the capacity of a SerializedSignature
MAX_LEN == 65
\* length of r and of s inside a raw schnorr signature
HalfLen == SigLen \div 2
\* the longest of the input lengths around the two accepted ones
MaxLen == 66

Fill(b, n) == [i \in 1..n |-> b]

IsZero(x) == \A i \in 1..Len(x) : x[i] = 0

\* core::cmp of two byte slices: lexicographic, a proper prefix is Less
LexCmp(x, y) ==
    LET m == IF Len(x) < Len(y) THEN Len(x) ELSE Len(y)
        D == {i \in 1..m : x[i] # y[i]}
    IN  IF D = {}
        THEN IF Len(x) < Len(y) THEN "Less"
             ELSE IF Len(x) > Len(y) THEN "Greater"
             ELSE "Equal"
        ELSE LET i == CHOOSE k \in D : \A j \in D : k <= j
             IN  IF x[i] < y[i] THEN "Less" ELSE "Greater"

Ok(v) == [ok |-> TRUE, val |-> v]

Err(e) == [ok |-> FALSE, err |-> e]

(***************************************************************************)
(* k256::schnorr::Signature, the raw signature (r, s)                      *)
(***************************************************************************)
\* the secp256k1 field modulus p, big-endian
FieldModulus ==
    Fill(255, 27) \o <<254, 255, 255, 252, 47>>

\* the secp256k1 group order n, big-endian
CurveOrder ==
    Fill(255, 15) \o
    <<254, 186, 174, 220, 230, 175, 72, 160, 59, 191, 210, 94, 140, 208, 54, 65, 65>>

\* k256::schnorr::Signature::try_from(&[u8]) on 64 bytes: r is a nonzero
\* field element, s a nonzero scalar
SigTryFrom(bytes) ==
    LET r == SubSeq(bytes, 1, HalfLen)
        s == SubSeq(bytes, HalfLen + 1, 2 * HalfLen)
    IN  IF \/ IsZero(r)
           \/ LexCmp(r, FieldModulus) # "Less"
           \/ IsZero(s)
           \/ LexCmp(s, CurveOrder) # "Less"
        THEN Err("signature::Error")
        ELSE Ok([r |-> r, s |-> s])

\* k256::schnorr::Signature::to_bytes
to_bytes(sig) == sig.r \o sig.s

(***************************************************************************)
(* crate::sighash::TapSighashType                                          *)
(***************************************************************************)
TapSighashType ==
    {"Default", "All", "None", "Single",
     "AllPlusAnyoneCanPay", "NonePlusAnyoneCanPay", "SinglePlusAnyoneCanPay"}

\* `sighash_type as u8`
as_u8(t) ==
    CASE t = "Default" -> 0
      [] t = "All" -> 1
      [] t = "None" -> 2
      [] t = "Single" -> 3
      [] t = "AllPlusAnyoneCanPay" -> 129
      [] t = "NonePlusAnyoneCanPay" -> 130
      [] t = "SinglePlusAnyoneCanPay" -> 131

\* TapSighashType::from_consensus_u8
from_consensus_u8(b) ==
    IF \E t \in TapSighashType : as_u8(t) = b
    THEN Ok(CHOOSE t \in TapSighashType : as_u8(t) = b)
    ELSE Err([kind |-> "InvalidSighashTypeError", code |-> b])

(***************************************************************************)
(* SigFromSliceError                                                       *)
(***************************************************************************)
SighashTypeErr(e) == [kind |-> "SighashType", cause |-> e.kind, code |-> e.code]

Secp256k1Err(e) == [kind |-> "Secp256k1", cause |-> e, code |-> 0]

InvalidSignatureSize(n) == [kind |-> "InvalidSignatureSize", cause |-> "none", code |-> n]

CryptoInvalidSignature == "CryptoError::InvalidSignature"

(***************************************************************************)
(* Signature                                                               *)
(***************************************************************************)
Signature(sig, t) == [signature |-> sig, sighash_type |-> t]

(***************************************************************************)
(* Faulty variants of from_slice, each one plausible slip away from it     *)
(***************************************************************************)
\* the 65-byte arm validates the sighash byte but returns Default
from_slice_IgnoresType(sl) ==
    IF Len(sl) = SigLen THEN
        LET p == SigTryFrom(sl)
        IN  [calls |-> <<"sig">>,
             res |-> IF p.ok THEN Ok(Signature(p.val, "Default"))
                     ELSE Err(Secp256k1Err(CryptoInvalidSignature))]
    ELSE IF Len(sl) = SigLen + 1 THEN
        LET h == from_consensus_u8(sl[Len(sl)])
        IN  IF ~h.ok
            THEN [calls |-> <<"sighash">>, res |-> Err(SighashTypeErr(h.err))]
            ELSE LET p == SigTryFrom(SubSeq(sl, 1, Len(sl) - 1))
                 IN  [calls |-> <<"sighash", "sig">>,
                      res |-> IF p.ok THEN Ok(Signature(p.val, "Default"))
                              ELSE Err(Secp256k1Err(CryptoInvalidSignature))]
    ELSE [calls |-> <<>>, res |-> Err(InvalidSignatureSize(Len(sl)))]

\* the 65-byte arm parses the raw signature before the sighash byte
from_slice_SigFirst(sl) ==
    IF Len(sl) = SigLen THEN
        LET p == SigTryFrom(sl)
        IN  [calls |-> <<"sig">>,
             res |-> IF p.ok THEN Ok(Signature(p.val, "Default"))
                     ELSE Err(Secp256k1Err(CryptoInvalidSignature))]
    ELSE IF Len(sl) = SigLen + 1 THEN
        LET p == SigTryFrom(SubSeq(sl, 1, Len(sl) - 1))
        IN  IF ~p.ok
            THEN [calls |-> <<"sig">>, res |-> Err(Secp256k1Err(CryptoInvalidSignature))]
            ELSE LET h == from_consensus_u8(sl[Len(sl)])
                 IN  [calls |-> <<"sig", "sighash">>,
                      res |-> IF h.ok THEN Ok(Signature(p.val, h.val))
                              ELSE Err(SighashTypeErr(h.err))]
    ELSE [calls |-> <<>>, res |-> Err(InvalidSignatureSize(Len(sl)))]

\* the second arm takes every length from 65 up
from_slice_AtLeast65(sl) ==
    IF Len(sl) = SigLen THEN
        LET p == SigTryFrom(sl)
        IN  [calls |-> <<"sig">>,
             res |-> IF p.ok THEN Ok(Signature(p.val, "Default"))
                     ELSE Err(Secp256k1Err(CryptoInvalidSignature))]
    ELSE IF Len(sl) >= SigLen + 1 THEN
        LET h == from_consensus_u8(sl[Len(sl)])
        IN  IF ~h.ok
            THEN [calls |-> <<"sighash">>, res |-> Err(SighashTypeErr(h.err))]
            ELSE LET p == SigTryFrom(SubSeq(sl, 1, Len(sl) - 1))
                 IN  [calls |-> <<"sighash", "sig">>,
                      res |-> IF p.ok THEN Ok(Signature(p.val, h.val))
                              ELSE Err(Secp256k1Err(CryptoInvalidSignature))]
    ELSE [calls |-> <<>>, res |-> Err(InvalidSignatureSize(Len(sl)))]

\* the 64-byte arm reports a rejected signature as a size error
from_slice_SizeForCrypto(sl) ==
    IF Len(sl) = SigLen THEN
        LET p == SigTryFrom(sl)
        IN  [calls |-> <<"sig">>,
             res |-> IF p.ok THEN Ok(Signature(p.val, "Default"))
                     ELSE Err(InvalidSignatureSize(Len(sl)))]
    ELSE IF Len(sl) = SigLen + 1 THEN
        LET h == from_consensus_u8(sl[Len(sl)])
        IN  IF ~h.ok
            THEN [calls |-> <<"sighash">>, res |-> Err(SighashTypeErr(h.err))]
            ELSE LET p == SigTryFrom(SubSeq(sl, 1, Len(sl) - 1))
                 IN  [calls |-> <<"sighash", "sig">>,
                      res |-> IF p.ok THEN Ok(Signature(p.val, h.val))
                              ELSE Err(Secp256k1Err(CryptoInvalidSignature))]
    ELSE [calls |-> <<>>, res |-> Err(InvalidSignatureSize(Len(sl)))]

\* the 65-byte arm rejects an explicit Default sighash byte
from_slice_RejectsExplicitDefault(sl) ==
    IF Len(sl) = SigLen THEN
        LET p == SigTryFrom(sl)
        IN  [calls |-> <<"sig">>,
             res |-> IF p.ok THEN Ok(Signature(p.val, "Default"))
                     ELSE Err(Secp256k1Err(CryptoInvalidSignature))]
    ELSE IF Len(sl) = SigLen + 1 THEN
        LET h == from_consensus_u8(sl[Len(sl)])
        IN  IF ~h.ok \/ h.val = "Default"
            THEN [calls |-> <<"sighash">>,
                  res |-> Err(SighashTypeErr([kind |-> "InvalidSighashTypeError",
                                              code |-> sl[Len(sl)]]))]
            ELSE LET p == SigTryFrom(SubSeq(sl, 1, Len(sl) - 1))
                 IN  [calls |-> <<"sighash", "sig">>,
                      res |-> IF p.ok THEN Ok(Signature(p.val, h.val))
                              ELSE Err(Secp256k1Err(CryptoInvalidSignature))]
    ELSE [calls |-> <<>>, res |-> Err(InvalidSignatureSize(Len(sl)))]

\* Signature::from_slice, with the collaborator parsers it invoked, in order
from_slice(sl) ==
    IF Len(sl) = SigLen THEN
        LET p == SigTryFrom(sl)
        IN  [calls |-> <<"sig">>,
             res |-> IF p.ok THEN Ok(Signature(p.val, "Default"))
                     ELSE Err(Secp256k1Err(CryptoInvalidSignature))]
    ELSE IF Len(sl) = SigLen + 1 THEN
        LET sighash_byte == sl[Len(sl)]
            signature == SubSeq(sl, 1, Len(sl) - 1)
            h == from_consensus_u8(sighash_byte)
        IN  IF ~h.ok
            THEN [calls |-> <<"sighash">>, res |-> Err(SighashTypeErr(h.err))]
            ELSE LET p == SigTryFrom(signature)
                 IN  [calls |-> <<"sighash", "sig">>,
                      res |-> IF p.ok THEN Ok(Signature(p.val, h.val))
                              ELSE Err(Secp256k1Err(CryptoInvalidSignature))]
    ELSE [calls |-> <<>>, res |-> Err(InvalidSignatureSize(Len(sl)))]

\* SerializedSignature::from_raw_parts
from_raw_parts(buf, len) == [buf |-> buf, len |-> len]

\* <SerializedSignature as Deref>::deref: the first len bytes
Deref(s) == SubSeq(s.buf, 1, s.len)

\* serialize that never appends the sighash byte
serialize_NeverTags(self) ==
    LET ser_sig == to_bytes(self.signature)
        buf0 == [i \in 1..MAX_LEN |-> IF i <= SigLen THEN ser_sig[i] ELSE 0]
    IN  from_raw_parts(buf0, SigLen)

\* serialize that appends the sighash byte for Default too
serialize_AlwaysTags(self) ==
    LET ser_sig == to_bytes(self.signature)
        buf0 == [i \in 1..MAX_LEN |-> IF i <= SigLen THEN ser_sig[i] ELSE 0]
    IN  from_raw_parts([buf0 EXCEPT ![SigLen + 1] = as_u8(self.sighash_type)],
                       SigLen + 1)

\* Signature::serialize
serialize(self) ==
    LET ser_sig == to_bytes(self.signature)
        buf0 == [i \in 1..MAX_LEN |-> IF i <= SigLen THEN ser_sig[i] ELSE 0]
    IN  IF self.sighash_type = "Default"
        THEN from_raw_parts(buf0, SigLen)
        ELSE from_raw_parts([buf0 EXCEPT ![SigLen + 1] = as_u8(self.sighash_type)],
                            SigLen + 1)

\* to_vec that pushes the sighash byte for Default too
to_vec_AlwaysPush(self) ==
    Append(to_bytes(self.signature), as_u8(self.sighash_type))

\* Signature::to_vec
to_vec(self) ==
    LET ser_sig == to_bytes(self.signature)
    IN  IF self.sighash_type = "Default"
        THEN ser_sig
        ELSE Append(ser_sig, as_u8(self.sighash_type))

\* derived PartialEq: field by field
eq(self, other) ==
    /\ self.signature = other.signature
    /\ self.sighash_type = other.sighash_type

\* <Signature as Ord>::cmp
cmp(self, other) == LexCmp(to_bytes(self.signature), to_bytes(other.signature))

\* <Signature as PartialOrd>::partial_cmp
partial_cmp(self, other) == [some |-> TRUE, val |-> cmp(self, other)]

\* <[u8] as Hash>::hash: the length prefix, then the bytes
HashSlice(bytes, state) == state \o <<Len(bytes)>> \o bytes

\* <Signature as Hash>::hash: what the hasher is fed
hash(self, state) == HashSlice(Deref(serialize(self)), state)

(***************************************************************************)
(* io::Write: a sink takes room more bytes, then fails with err            *)
(***************************************************************************)
Writer(room, err) == [data |-> <<>>, room |-> room, err |-> err]

\* Write::write_all
write_all(w, bytes) ==
    IF Len(bytes) <= w.room
    THEN [writer |-> [w EXCEPT !.data = @ \o bytes, !.room = @ - Len(bytes)],
          res |-> Ok("unit")]
    ELSE [writer |-> [w EXCEPT !.data = @ \o SubSeq(bytes, 1, w.room), !.room = 0],
          res |-> Err(w.err)]

\* SerializedSignature::write_to
write_to(s, w) == write_all(w, Deref(s))

\* Signature::serialize_to_writer
serialize_to_writer(self, w) ==
    LET sig == serialize(self)
    IN  write_to(sig, w)

(***************************************************************************)
(* The values the operations are applied to                                *)
(***************************************************************************)
\* fill bytes of the two halves of a 64-byte candidate: <<r fill, s fill>>
ValidTemplates == {<<1, 1>>, <<1, 2>>, <<2, 1>>}

Templates == ValidTemplates \cup {<<0, 0>>, <<255, 255>>, <<1, 0>>}

Raw(t) == Fill(t[1], HalfLen) \o Fill(t[2], HalfLen)

\* trailing bytes: sighash codes, and bytes that are none
TailBytes == {0, 1, 2, 131, 4, 255}

\* input lengths: the shortest, those around the accepted ones, a long one
Lens == {0, 1, 100} \cup ((SigLen - 1)..MaxLen)

\* n bytes: a 64-byte candidate, then the tail byte repeated
Input(t, tail, n) == [i \in 1..n |-> IF i <= SigLen THEN Raw(t)[i] ELSE tail]

Inputs == {Input(t, tail, n) : t \in Templates, tail \in TailBytes, n \in Lens}

RawSigs == {SigTryFrom(Raw(t)).val : t \in ValidTemplates}

Signatures == {Signature(sig, t) : sig \in RawSigs, t \in TapSighashType}

Writers == {Writer(room, err) : room \in {0, SigLen, MAX_LEN},
                                err \in {"WriteZero", "BrokenPipe"}}

NoOut == [op |-> "none"]

(***************************************************************************)
(* State: a is the Signature the methods are called on, out the last call  *)
(* with its arguments and what it returned.                                *)
(***************************************************************************)
Init ==
    /\ a \in Signatures
    /\ out = NoOut

Serialize ==
    /\ out' = [op |-> "serialize", ser |-> serialize(a)]
    /\ UNCHANGED a

ToVec ==
    /\ out' = [op |-> "to_vec", vec |-> to_vec(a)]
    /\ UNCHANGED a

SerializeToWriter ==
    \E w \in Writers :
        LET r == serialize_to_writer(a, w)
        IN  /\ out' = [op |-> "serialize_to_writer", sink |-> w,
                       writer |-> r.writer, res |-> r.res]
            /\ UNCHANGED a

Cmp ==
    \E b \in Signatures :
        /\ out' = [op |-> "cmp", other |-> b, ord |-> cmp(a, b),
                   partial |-> partial_cmp(a, b)]
        /\ UNCHANGED a

Eq ==
    \E b \in Signatures :
        /\ out' = [op |-> "eq", other |-> b, res |-> eq(a, b)]
        /\ UNCHANGED a

Hash ==
    \E b \in Signatures :
        /\ out' = [op |-> "hash", other |-> b,
                   fed |-> hash(a, <<>>), fedOther |-> hash(b, <<>>)]
        /\ UNCHANGED a

\* from_slice of an arbitrary slice
FromSlice ==
    \E sl \in Inputs :
        LET r == from_slice(sl)
        IN  /\ out' = [op |-> "from_slice", sl |-> sl, encoded |-> FALSE,
                       calls |-> r.calls, res |-> r.res]
            /\ UNCHANGED a

\* from_slice(&a.serialize()): decoding the bytes serialize just produced
FromSerialized ==
    /\ out.op = "serialize"
    /\ LET r == from_slice(Deref(out.ser))
       IN  out' = [op |-> "from_slice", sl |-> Deref(out.ser), encoded |-> TRUE,
                   calls |-> r.calls, res |-> r.res]
    /\ UNCHANGED a

\* from_slice(sl)?.serialize(): encoding the value just decoded
SerializeDecoded ==
    /\ out.op = "from_slice"
    /\ out.res.ok
    /\ out' = [op |-> "reserialize", sl |-> out.sl, val |-> out.res.val,
               ser |-> serialize(out.res.val)]
    /\ UNCHANGED a

Next ==
    \/ Serialize
    \/ ToVec
    \/ SerializeToWriter
    \/ Cmp
    \/ Eq
    \/ Hash
    \/ FromSlice
    \/ FromSerialized
    \/ SerializeDecoded

Spec == Init /\ [][Next]_vars

(***************************************************************************)
(* Properties                                                              *)
(***************************************************************************)
Encoding(v) == Deref(serialize(v))

IsFromSlice == out.op = "from_slice"

\* C1: decoding the bytes of a.serialize() succeeds and gives back a, for
\* every accepted raw signature and every sighash type, Default or not.
C1_RoundTrip ==
    (IsFromSlice /\ out.encoded) => (out.res.ok /\ out.res.val = a)

C1_Witness ==
    /\ IsFromSlice /\ out.encoded
    /\ Len(out.sl) = SigLen + 1
    /\ out.res.ok
    /\ out.res.val.sighash_type = "SinglePlusAnyoneCanPay"

\* C2: a.cmp(b) is the byte-lexicographic comparison of the encodings of a
\* and b, sighash byte included when present.
C2_CmpIsEncodingOrder ==
    out.op = "cmp" => out.ord = LexCmp(Encoding(a), Encoding(out.other))

\* C3: a.cmp(b) is Equal exactly when the encodings are byte-identical,
\* which is exactly when raw signature and sighash type are both equal.
C3_CmpEqualIffEq ==
    out.op = "cmp" =>
        /\ (out.ord = "Equal") <=> (Encoding(a) = Encoding(out.other))
        /\ (out.ord = "Equal") <=> eq(a, out.other)

\* C4: a == b exactly when a.serialize() and b.serialize() are the same
\* bytes (serialize is injective), and equal values feed a hasher the same.
C4_EqIffSameEncoding ==
    /\ out.op = "eq" => (out.res <=> (Encoding(a) = Encoding(out.other)))
    /\ out.op = "hash" => (eq(a, out.other) => out.fed = out.fedOther)

C4_Witness ==
    /\ out.op = "eq"
    /\ ~out.res
    /\ a.signature = out.other.signature
    /\ a.sighash_type = "Default"

\* C5: on 65 bytes the sighash byte is validated first: a rejected byte gives
\* the SighashType error wrapping the collaborator's error without the raw
\* signature parser being invoked, whatever the first 64 bytes are; Secp256k1
\* is returned only when the byte was accepted and the first 64 bytes rejected.
C5_SighashByteFirst ==
    (IsFromSlice /\ Len(out.sl) = SigLen + 1) =>
        LET h == from_consensus_u8(out.sl[SigLen + 1])
            p == SigTryFrom(SubSeq(out.sl, 1, SigLen))
        IN  /\ ~h.ok => /\ ~out.res.ok
                        /\ out.res.err = SighashTypeErr(h.err)
                        /\ out.calls = <<"sighash">>
            /\ (~out.res.ok /\ out.res.err.kind = "Secp256k1") => (h.ok /\ ~p.ok)
            /\ (h.ok /\ ~p.ok) => (~out.res.ok /\ out.res.err.kind = "Secp256k1")

C5_Witness ==
    /\ IsFromSlice /\ Len(out.sl) = SigLen + 1
    /\ ~from_consensus_u8(out.sl[SigLen + 1]).ok
    /\ ~SigTryFrom(SubSeq(out.sl, 1, SigLen)).ok
    /\ out.res.err.kind = "SighashType"

\* C6: a slice of a length n other than 64 and 65 is rejected with
\* InvalidSignatureSize(n) and no parser is invoked; a slice of length 64 or
\* 65 never gets InvalidSignatureSize.
C6_LengthRejection ==
    IsFromSlice =>
        IF Len(out.sl) \notin {SigLen, SigLen + 1}
        THEN /\ ~out.res.ok
             /\ out.res.err = InvalidSignatureSize(Len(out.sl))
             /\ out.calls = <<>>
        ELSE out.res.ok \/ out.res.err.kind # "InvalidSignatureSize"

C6_Witness ==
    /\ IsFromSlice
    /\ Len(out.sl) = 100
    /\ out.res.err.kind = "InvalidSignatureSize"
    /\ out.res.err.code = 100

\* C7: serialize(v) holds the collaborator's 64 bytes of v.signature first;
\* its length is 64 for Default and 65 otherwise, and then byte 64 is the
\* numeric code of v.sighash_type.
C7_SerializeLayout ==
    out.op \in {"serialize", "reserialize"} =>
        LET v == IF out.op = "serialize" THEN a ELSE out.val
        IN  /\ Len(out.ser.buf) = MAX_LEN
            /\ SubSeq(out.ser.buf, 1, SigLen) = to_bytes(v.signature)
            /\ out.ser.len \in {SigLen, SigLen + 1}
            /\ (v.sighash_type = "Default") <=> (out.ser.len = SigLen)
            /\ out.ser.len = SigLen + 1 => out.ser.buf[SigLen + 1] = as_u8(v.sighash_type)

C7_Witness ==
    /\ out.op = "serialize"
    /\ out.ser.len = SigLen + 1
    /\ out.ser.buf[SigLen + 1] = 131

\* C8: to_vec() is byte for byte the bytes of serialize(); serialize_to_writer
\* writes those bytes to the sink, and hands back the sink's error unchanged
\* when the sink fails.
C8_ConveniencesAgree ==
    /\ out.op = "to_vec" => out.vec = Encoding(a)
    /\ out.op = "serialize_to_writer" =>
        IF out.res.ok
        THEN out.writer.data = Encoding(a)
        ELSE /\ out.res.err = out.sink.err
             /\ Len(Encoding(a)) > out.sink.room
             /\ out.writer.data = SubSeq(Encoding(a), 1, out.sink.room)

C8_Witness ==
    /\ out.op = "serialize_to_writer"
    /\ out.sink.room = SigLen
    /\ ~out.res.ok
    /\ out.res.err = "BrokenPipe"

\* C9: on 64 bytes the sighash parser is never consulted; accepted bytes give
\* a Signature with sighash_type Default, rejected bytes (64 zero bytes, say)
\* give Secp256k1(InvalidSignature).
C9_SixtyFourBytes ==
    (IsFromSlice /\ Len(out.sl) = SigLen) =>
        LET p == SigTryFrom(out.sl)
        IN  /\ out.calls = <<"sig">>
            /\ IF p.ok
               THEN out.res.ok /\ out.res.val = Signature(p.val, "Default")
               ELSE ~out.res.ok /\ out.res.err = Secp256k1Err(CryptoInvalidSignature)

C9_Witness ==
    /\ IsFromSlice
    /\ out.sl = Fill(0, SigLen)
    /\ ~out.res.ok
    /\ out.res.err.kind = "Secp256k1"

\* C10: 65 bytes whose first 64 are an accepted raw signature and whose last
\* byte is the code of Default are accepted with sighash_type Default, and
\* serialize of that value is the 64-byte form: the first 64 input bytes.
C10_ExplicitDefaultCanonicalized ==
    /\ (IsFromSlice /\ Len(out.sl) = SigLen + 1
          /\ SigTryFrom(SubSeq(out.sl, 1, SigLen)).ok
          /\ from_consensus_u8(out.sl[SigLen + 1]) = Ok("Default")) =>
            (out.res.ok /\ out.res.val.sighash_type = "Default")
    /\ (out.op = "reserialize" /\ Len(out.sl) = SigLen + 1
          /\ from_consensus_u8(out.sl[SigLen + 1]) = Ok("Default")) =>
            /\ out.ser.len = SigLen
            /\ Deref(out.ser) = SubSeq(out.sl, 1, SigLen)

C10_Witness ==
    /\ out.op = "reserialize"
    /\ Len(out.sl) = SigLen + 1
    /\ out.sl[SigLen + 1] = 0
    /\ out.ser.len = SigLen

====
